---- MODULE Spec2Model ----
(***************************************************************************)
(* A model of src/main.py, the English-Turkish word review game (class     *)
(* WordGame).  The state is the word table file data/words_2000.csv, the   *)
(* import file mylist.txt, the fields of the WordGame object, the states   *)
(* of its buttons and the position of the single thread of control: the    *)
(* constructor runs to the main loop, then one callback runs at a time.    *)
(*                                                                         *)
(* A string is a sequence of one-character strings, so that strip(),       *)
(* lower(), int() and the pronunciation functions are computed, character  *)
(* by character, the way the code computes them.                           *)
(***************************************************************************)
EXTENDS Integers, Sequences, FiniteSets, TLC

VARIABLES
    file,               \* data/words_2000.csv: [exists, rows], rows of text fields
    mylist,             \* mylist.txt: [exists, lines]
    words,              \* self.words: list of dicts en, tr, en_pron, tr_pron, learned
    known_words,        \* self.known_words: set of english keys
    current_word,       \* self.current_word: index of the dict in words, 0 = None
    mode,               \* self.mode
    show_answer_button, \* state of the Show Answer button
    learned_button,     \* state of the I Learned It button
    next_button,        \* state of the Next Word button
    pron_button,        \* state of the Get Pronunciation button
    answer_shown,       \* the answer labels are gridded (not grid_remove'd)
    pc,                 \* position of the thread of control
    load_failed,        \* _load_words reported "data/words_2000.csv not found"
    import_log,         \* what _import_from_mylist reported: [read_error, failed]
    last_write,         \* outcome of the latest _save_words_to_csv call
    write_failures,     \* number of _save_words_to_csv calls that failed so far
    pron_call,          \* the pronunciation function called directly, "none" before
    pron_arg,           \* the string passed to it
    pron_ret            \* the string it returned

\* the game: the files, the WordGame object and its thread of control
game == <<file, mylist, words, known_words, current_word, mode,
          show_answer_button, learned_button, next_button, pron_button,
          answer_shown, pc, load_failed, import_log, last_write, write_failures>>

\* the frame of a direct call of _fetch_turkish_pron or _simplify_english_pron
call == <<pron_call, pron_arg, pron_ret>>

vars == <<game, call>>

ui == <<show_answer_button, learned_button, next_button, pron_button, answer_shown>>

(***************************************************************************)
(* Bounds of the model.                                                    *)
(***************************************************************************)
\* the largest number of rows of the word table file and lines of
\* mylist.txt, taken together, at startup
MaxEntries == 2
\* the largest number of calls of _save_words_to_csv that fail in one run
MaxWriteFailures == 1

(***************************************************************************)
(* Strings.                                                                *)
(***************************************************************************)
\* the whitespace str.strip() and \s recognise, within the model's alphabet
IsSpace(c) == c = " "

RECURSIVE LStrip(_)
LStrip(s) == IF s = <<>> THEN s
             ELSE IF IsSpace(Head(s)) THEN LStrip(Tail(s)) ELSE s

RECURSIVE RStrip(_)
RStrip(s) == IF s = <<>> THEN s
             ELSE IF IsSpace(s[Len(s)]) THEN RStrip(SubSeq(s, 1, Len(s) - 1)) ELSE s

\* str.strip()
Strip(s) == RStrip(LStrip(s))

\* str.lower() on one character of the model's alphabet
LowerChar(c) == CASE c = "A" -> "a"
                  [] c = "B" -> "b"
                  [] c = "C" -> "c"
                  [] OTHER -> c

\* str.lower()
Lower(s) == [i \in 1..Len(s) |-> LowerChar(s[i])]

DigitValue(c) == CASE c = "0" -> 0 [] c = "1" -> 1 [] c = "2" -> 2 [] c = "3" -> 3
                   [] c = "4" -> 4 [] c = "5" -> 5 [] c = "6" -> 6 [] c = "7" -> 7
                   [] c = "8" -> 8 [] c = "9" -> 9

RECURSIVE DigitsValue(_)
DigitsValue(s) == IF s = <<>> THEN 0
                  ELSE 10 * DigitsValue(SubSeq(s, 1, Len(s) - 1)) + DigitValue(s[Len(s)])

\* int(text.strip()) of a decimal numeral without sign
ParseInt(s) == DigitsValue(Strip(s))

DigitChar(d) == CASE d = 0 -> "0" [] d = 1 -> "1" [] d = 2 -> "2" [] d = 3 -> "3"
                  [] d = 4 -> "4" [] d = 5 -> "5" [] d = 6 -> "6" [] d = 7 -> "7"
                  [] d = 8 -> "8" [] d = 9 -> "9"

RECURSIVE IntToStr(_)
\* str(n) for n >= 0, as csv.DictWriter writes the learned flag
IntToStr(n) == IF n < 10 THEN <<DigitChar(n)>>
               ELSE Append(IntToStr(n \div 10), DigitChar(n % 10))

(***************************************************************************)
(* The files at startup.                                                   *)
(***************************************************************************)
\* Rows a word table can hold: a plain unknown word, the same key again
\* already learned, a key and a flag with surrounding blanks, an entry with
\* an english pronunciation and no turkish text, and a flag that is neither
\* 0 nor 1 (int() accepts it).
RowPool ==
    { [english |-> <<"a">>, turkish |-> <<"x", "y", "z">>, english_pron |-> <<>>,
       turkish_pron |-> <<>>, learned |-> <<"0">>],
      [english |-> <<"a">>, turkish |-> <<"x", "y", "z">>, english_pron |-> <<>>,
       turkish_pron |-> <<>>, learned |-> <<"1">>],
      [english |-> <<" ", "B">>, turkish |-> <<>>, english_pron |-> <<"b", "i">>,
       turkish_pron |-> <<>>, learned |-> <<" ", "1">>],
      [english |-> <<"b">>, turkish |-> <<"x", "y">>, english_pron |-> <<>>,
       turkish_pron |-> <<>>, learned |-> <<"2">>] }

\* Lines mylist.txt can hold: a blank line, a word that differs from the
\* key "a" by case and a trailing blank, and a word no row has.
LinePool == { <<>>, <<"A", " ">>, <<"c">> }

SeqsUpTo(S, n) == UNION { [1..k -> S] : k \in 0..n }

AbsentFile == [exists |-> FALSE, rows |-> <<>>]
AbsentList == [exists |-> FALSE, lines |-> <<>>]

WordTables == {AbsentFile} \cup { [exists |-> TRUE, rows |-> r] : r \in SeqsUpTo(RowPool, MaxEntries) }
MyLists == {AbsentList} \cup { [exists |-> TRUE, lines |-> l] : l \in SeqsUpTo(LinePool, MaxEntries) }

(***************************************************************************)
(* _load_words and _save_words_to_csv.                                     *)
(***************************************************************************)
\* the dict _load_words builds from one csv row
LoadRow(row) == [en |-> Strip(row.english),
                 tr |-> Strip(row.turkish),
                 en_pron |-> Strip(row.english_pron),
                 tr_pron |-> Strip(row.turkish_pron),
                 learned |-> ParseInt(row.learned)]

LoadRows(rows) == [i \in 1..Len(rows) |-> LoadRow(rows[i])]

\* SaveRow without the turkish_pron column of the dict
SaveRow_NoTurkishPron(w) == [english |-> w.en,
                             turkish |-> w.tr,
                             english_pron |-> w.en_pron,
                             turkish_pron |-> <<>>,
                             learned |-> IntToStr(w.learned)]

\* the csv row _save_words_to_csv writes for one dict
SaveRow(w) == [english |-> w.en,
               turkish |-> w.tr,
               english_pron |-> w.en_pron,
               turkish_pron |-> w.tr_pron,
               learned |-> IntToStr(w.learned)]

SaveRows(ws) == [i \in 1..Len(ws) |-> SaveRow(ws[i])]

\* What a call of _save_words_to_csv can make of the file: "ok" writes every
\* row; "failed" is an IOError of open(), the file is left as it was;
\* "partial" is an IOError after open() truncated the file and k rows were
\* written.  Both errors are caught and reported by a warning.
WriteOutcomes(ws) == {[result |-> "ok", k |-> Len(ws)], [result |-> "failed", k |-> 0]}
                     \cup { [result |-> "partial", k |-> k] : k \in 0..(Len(ws) - 1) }

\* SaveWordsToCsv with the file opened for append instead of write
SaveWordsToCsv_Append(ws, f, o) ==
    CASE o.result = "ok" -> [exists |-> TRUE, rows |-> f.rows \o SaveRows(ws)]
      [] o.result = "partial" ->
            [exists |-> TRUE, rows |-> f.rows \o SubSeq(SaveRows(ws), 1, o.k)]
      [] OTHER -> f

SaveWordsToCsv(ws, f, o) ==
    CASE o.result = "ok" -> [exists |-> TRUE, rows |-> SaveRows(ws)]
      [] o.result = "partial" -> [exists |-> TRUE, rows |-> SubSeq(SaveRows(ws), 1, o.k)]
      [] OTHER -> f

WriteResult(o) == IF o.result = "ok" THEN "ok" ELSE "failed"

(***************************************************************************)
(* The pronunciation functions.                                            *)
(***************************************************************************)
Min(a, b) == IF a < b THEN a ELSE b

RECURSIVE Join(_, _)
\* sep.join(parts)
Join(parts, sep) == IF parts = <<>> THEN <<>>
                    ELSE IF Len(parts) = 1 THEN parts[1]
                    ELSE parts[1] \o sep \o Join(Tail(parts), sep)

\* [word[i:i+2] for i in range(0, len(word), 2)]
Chunks(word) == [j \in 1..((Len(word) + 1) \div 2) |->
                    SubSeq(word, 2 * j - 1, Min(2 * j, Len(word)))]

\* FetchTurkishPron returning words of up to three characters unchanged
FetchTurkishPron_ShortUpToThree(word) ==
    IF word = <<>> THEN <<>>
    ELSE IF Len(word) <= 3 THEN word
    ELSE Join(SelectSeq(Chunks(word), LAMBDA part : part # <<>>), <<"-">>)

\* the pronunciation _fetch_turkish_pron returns (its error is always None)
FetchTurkishPron(word) ==
    IF word = <<>> THEN <<>>
    ELSE IF Len(word) <= 2 THEN word
    ELSE Join(SelectSeq(Chunks(word), LAMBDA part : part # <<>>), <<"-">>)

\* The substitution table of _simplify_english_pron, keyed by the 1- or
\* 2-character slice.  A character outside ASCII is written as its code
\* point: "U+00E6" is the one character ae, "U+02C8" the primary stress mark.
mapping ==
    (<<"U+0251">> :> <<"a">>) @@ (<<"U+00E6">> :> <<"e">>) @@ (<<"U+0252">> :> <<"o">>) @@
    (<<"U+028C">> :> <<"a">>) @@ (<<"U+0259">> :> <<"e">>) @@ (<<"U+025B">> :> <<"e">>) @@
    (<<"U+025C">> :> <<"e", "r">>) @@ (<<"U+026A">> :> <<"i">>) @@ (<<"i">> :> <<"i">>) @@
    (<<"U+0254">> :> <<"o">>) @@ (<<"U+028A">> :> <<"u">>) @@ (<<"u">> :> <<"u">>) @@
    (<<"U+0261">> :> <<"g">>) @@ (<<"U+014B">> :> <<"n", "g">>) @@ (<<"U+0283">> :> <<"s", "h">>) @@
    (<<"U+0292">> :> <<"j">>) @@ (<<"U+03B8">> :> <<"t">>) @@ (<<"U+00F0">> :> <<"d">>) @@
    (<<"t", "U+0283">> :> <<"c", "h">>) @@ (<<"d", "U+0292">> :> <<"j">>)

RECURSIVE LStripSlash(_)
LStripSlash(s) == IF s # <<>> /\ Head(s) = "/" THEN LStripSlash(Tail(s)) ELSE s

RECURSIVE RStripSlash(_)
RStripSlash(s) == IF s # <<>> /\ s[Len(s)] = "/"
                  THEN RStripSlash(SubSeq(s, 1, Len(s) - 1)) ELSE s

RECURSIVE MapIpa(_, _)
\* the while loop of _simplify_english_pron, from index i (1-based)
MapIpa(ipa, i) ==
    IF i > Len(ipa) THEN <<>>
    ELSE IF i + 1 <= Len(ipa) /\ SubSeq(ipa, i, i + 1) \in DOMAIN mapping
         THEN mapping[SubSeq(ipa, i, i + 1)] \o MapIpa(ipa, i + 2)
    ELSE IF <<ipa[i]>> \in DOMAIN mapping
         THEN mapping[<<ipa[i]>>] \o MapIpa(ipa, i + 1)
    ELSE <<ipa[i]>> \o MapIpa(ipa, i + 1)

\* IsStress recognising the primary stress mark only
IsStress_PrimaryOnly(c) == c = "U+02C8"

\* [ˈˌ]: the primary and the secondary stress mark
IsStress(c) == c \in {"U+02C8", "U+02CC"}

RECURSIVE SpacesToHyphen(_)
\* re.sub(r'\s+', '-', s)
SpacesToHyphen(s) ==
    IF s = <<>> THEN <<>>
    ELSE IF IsSpace(Head(s)) THEN <<"-">> \o SpacesToHyphen(LStrip(s))
    ELSE <<Head(s)>> \o SpacesToHyphen(Tail(s))

\* new_ipa of _simplify_english_pron before the hyphen in the middle: the
\* input without its outer slashes, in lowercase, romanized by the table,
\* without stress marks, each run of whitespace made one hyphen
Romanized(ipa) ==
    SpacesToHyphen(SelectSeq(MapIpa(Lower(RStripSlash(LStripSlash(ipa))), 1),
                             LAMBDA c : ~IsStress(c)))

\* SimplifyEnglishPron adding the hyphen only to strings longer than four
SimplifyEnglishPron_LongerThanFour(ipa) ==
    IF ipa = <<>> THEN <<>>
    ELSE LET new_ipa == Romanized(ipa)
             mid == Len(new_ipa) \div 2
         IN  IF (\A i \in 1..Len(new_ipa) : new_ipa[i] # "-") /\ Len(new_ipa) > 4
             THEN SubSeq(new_ipa, 1, mid) \o <<"-">> \o SubSeq(new_ipa, mid + 1, Len(new_ipa))
             ELSE new_ipa

SimplifyEnglishPron(ipa) ==
    IF ipa = <<>> THEN <<>>
    ELSE LET mapped == MapIpa(Lower(RStripSlash(LStripSlash(ipa))), 1)
             nostress == SelectSeq(mapped, LAMBDA c : ~IsStress(c))
             new_ipa == SpacesToHyphen(nostress)
             mid == Len(new_ipa) \div 2
         IN  IF (\A i \in 1..Len(new_ipa) : new_ipa[i] # "-") /\ Len(new_ipa) > 3
             THEN SubSeq(new_ipa, 1, mid) \o <<"-">> \o SubSeq(new_ipa, mid + 1, Len(new_ipa))
             ELSE new_ipa

\* What eng_to_ipa.eng_to_ipa can give for a word: it raises (the library is
\* not installed, or any other exception), or it returns a transcription.
IpaPool == { <<>>, <<"U+02C8", "k", "U+00E6", "t", "s">> }
IpaOutcomes == {[ok |-> FALSE, ipa |-> <<>>]} \cup { [ok |-> TRUE, ipa |-> t] : t \in IpaPool }

\* the pronunciation _fetch_english_pron returns, <<>> standing for None too
FetchEnglishPron(o) == IF o.ok THEN SimplifyEnglishPron(o.ipa) ELSE <<>>

(***************************************************************************)
(* _import_from_mylist.                                                    *)
(***************************************************************************)
\* What translator.translate can do for one candidate: raise, or return a
\* translation whose text is stripped by the caller.
TransOutcomes == { [ok |-> FALSE, text |-> <<>>], [ok |-> TRUE, text |-> <<" ", "x", "y">>] }

RECURSIVE ImportLoop_CaseSensitive(_, _, _, _, _)
\* ImportLoop comparing the candidate itself, not its lowercase form
ImportLoop_CaseSensitive(lines, i, existing_ens, new_words, tr) ==
    IF i > Len(lines) THEN new_words
    ELSE LET en_word == Strip(lines[i]) IN
         IF en_word = <<>> \/ en_word \in existing_ens
         THEN ImportLoop_CaseSensitive(lines, i + 1, existing_ens, new_words, tr)
         ELSE IF tr[i].ok
         THEN ImportLoop_CaseSensitive(lines, i + 1, existing_ens \cup {en_word},
                         Append(new_words, [en |-> en_word, tr |-> Strip(tr[i].text),
                                            en_pron |-> <<>>, tr_pron |-> <<>>,
                                            learned |-> 0]), tr)
         ELSE ImportLoop_CaseSensitive(lines, i + 1, existing_ens, new_words, tr)

RECURSIVE ImportLoop_AbortOnFailure(_, _, _, _, _)
\* ImportLoop leaving the loop at the first translation that raises
ImportLoop_AbortOnFailure(lines, i, existing_ens, new_words, tr) ==
    IF i > Len(lines) THEN new_words
    ELSE LET en_word == Strip(lines[i]) IN
         IF en_word = <<>> \/ Lower(en_word) \in existing_ens
         THEN ImportLoop_AbortOnFailure(lines, i + 1, existing_ens, new_words, tr)
         ELSE IF tr[i].ok
         THEN ImportLoop_AbortOnFailure(lines, i + 1, existing_ens \cup {Lower(en_word)},
                         Append(new_words, [en |-> en_word, tr |-> Strip(tr[i].text),
                                            en_pron |-> <<>>, tr_pron |-> <<>>,
                                            learned |-> 0]), tr)
         ELSE new_words

RECURSIVE ImportLoop(_, _, _, _, _)
\* the for loop over the lines of mylist.txt, from line i: new_words at its end
ImportLoop(lines, i, existing_ens, new_words, tr) ==
    IF i > Len(lines) THEN new_words
    ELSE LET en_word == Strip(lines[i]) IN
         IF en_word = <<>> \/ Lower(en_word) \in existing_ens
         THEN ImportLoop(lines, i + 1, existing_ens, new_words, tr)
         ELSE IF tr[i].ok
         THEN ImportLoop(lines, i + 1, existing_ens \cup {Lower(en_word)},
                         Append(new_words, [en |-> en_word, tr |-> Strip(tr[i].text),
                                            en_pron |-> <<>>, tr_pron |-> <<>>,
                                            learned |-> 0]), tr)
         ELSE ImportLoop(lines, i + 1, existing_ens, new_words, tr)

\* new_words of one run of _import_from_mylist over a readable mylist.txt
ImportNewWords(ws, lines, tr) ==
    ImportLoop(lines, 1, { Lower(ws[i].en) : i \in 1..Len(ws) }, <<>>, tr)

\* What the run reported: read_error, the "File Error" of an IOError while
\* mylist.txt was read; failed, the lines (by number) whose candidate got a
\* "Translation Error" warning and a line in errors.txt.
NoImportLog == [read_error |-> FALSE, failed |-> {}]

RECURSIVE FailedLines(_, _, _, _)
\* the lines from i on whose translation is attempted and raises
FailedLines(lines, i, existing_ens, tr) ==
    IF i > Len(lines) THEN {}
    ELSE LET en_word == Strip(lines[i]) IN
         IF en_word = <<>> \/ Lower(en_word) \in existing_ens
         THEN FailedLines(lines, i + 1, existing_ens, tr)
         ELSE IF tr[i].ok
         THEN FailedLines(lines, i + 1, existing_ens \cup {Lower(en_word)}, tr)
         ELSE {i} \cup FailedLines(lines, i + 1, existing_ens, tr)

(***************************************************************************)
(* Word selection and marking.                                             *)
(***************************************************************************)
\* _get_unknown_words, as the indices of the dicts it returns
GetUnknownWords(ws) == { i \in 1..Len(ws) : ws[i].learned = 0 }

\* the loop of _mark_learned_and_next: the first dict whose key is en_word
RECURSIVE FirstWithKey(_, _, _)
FirstWithKey(ws, en_word, i) ==
    IF i > Len(ws) THEN 0
    ELSE IF ws[i].en = en_word THEN i
    ELSE FirstWithKey(ws, en_word, i + 1)

\* MarkLearned flipping the flag instead of setting it
MarkLearned_Toggle(ws, en_word) ==
    LET i == FirstWithKey(ws, en_word, 1)
    IN  IF i = 0 THEN ws ELSE [ws EXCEPT ![i].learned = 1 - @]

\* the flags after the loop of _mark_learned_and_next
MarkLearned(ws, en_word) ==
    LET i == FirstWithKey(ws, en_word, 1)
    IN  IF i = 0 THEN ws ELSE [ws EXCEPT ![i].learned = 1]

\* AddKnown adding the lowercase form of the key
AddKnown_Lower(kw, en_word) == kw \cup {Lower(en_word)}

\* self.known_words.add(en_word)
AddKnown(kw, en_word) == kw \cup {en_word}

\* {w["en"] for w in self.words if w["learned"] == 1}
KnownFromWords(ws) == { ws[i].en : i \in { j \in 1..Len(ws) : ws[j].learned = 1 } }

\* ResetLearned leaving the flags as they are
ResetLearned_KeepsFlags(ws) == ws

\* for w in self.words: w["learned"] = 0
ResetLearned(ws) == [i \in 1..Len(ws) |-> [ws[i] EXCEPT !.learned = 0]]

Modes == {"en_to_tr", "tr_to_en"}

\* the source pronunciation of a dict in a mode
SourcePron(w, m) == IF m = "en_to_tr" THEN w.en_pron ELSE w.tr_pron

(***************************************************************************)
(* Startup: WordGame.__init__.                                             *)
(***************************************************************************)
Init ==
    /\ file \in WordTables
    /\ mylist \in MyLists
    /\ Len(file.rows) + Len(mylist.lines) <= MaxEntries
    /\ words = <<>>
    /\ known_words = {}
    /\ current_word = 0
    /\ mode = "en_to_tr"
    /\ show_answer_button = "normal"
    /\ learned_button = "disabled"
    /\ next_button = "disabled"
    /\ pron_button = "normal"
    /\ answer_shown = FALSE
    /\ pc = "load_words"
    /\ load_failed = FALSE
    /\ import_log = NoImportLog
    /\ last_write = "none"
    /\ write_failures = 0
    /\ pron_call = "none"
    /\ pron_arg = <<>>
    /\ pron_ret = <<>>

\* self.words = self._load_words(): a missing file is reported, self.quit()
\* is called before the main loop runs, and [] is returned to __init__
LoadWords ==
    /\ pc = "load_words"
    /\ words' = IF file.exists THEN LoadRows(file.rows) ELSE <<>>
    /\ load_failed' = ~file.exists
    /\ pc' = "import"
    /\ UNCHANGED <<file, mylist, known_words, current_word, mode, ui, import_log,
                   last_write, write_failures>>
    /\ UNCHANGED call

\* asyncio.run(self._import_from_mylist()) up to self.words.extend(new_words).
\* An IOError while mylist.txt is read leaves the handler with nothing
\* appended; each candidate gets its own outcome of the translation.
ImportFromMylist ==
    /\ pc = "import"
    /\ \E read_ok \in BOOLEAN, tr \in [1..Len(mylist.lines) -> TransOutcomes] :
          LET new_words == IF mylist.exists /\ read_ok
                           THEN ImportNewWords(words, mylist.lines, tr)
                           ELSE <<>>
          IN  /\ words' = words \o new_words
              /\ pc' = IF new_words # <<>> THEN "import_save" ELSE "setup"
              /\ import_log' =
                    IF ~mylist.exists THEN NoImportLog
                    ELSE IF ~read_ok THEN [read_error |-> TRUE, failed |-> {}]
                    ELSE [read_error |-> FALSE,
                          failed |-> FailedLines(mylist.lines, 1,
                                        { Lower(words[i].en) : i \in 1..Len(words) }, tr)]
    /\ UNCHANGED <<file, mylist, known_words, current_word, mode, ui,
                   load_failed, last_write, write_failures>>
    /\ UNCHANGED call

\* the position after a call of _save_words_to_csv returns
AfterSave(p) == CASE p = "import_save" -> "setup"
                  [] p = "mark_save" -> "load_new_word"
                  [] p = "reset_save" -> "choose"
                  [] p = "pron_save" -> "idle"

SavePositions == {"import_save", "mark_save", "reset_save", "pron_save"}

\* One call of _save_words_to_csv, at any of its four call sites.  After the
\* call in _get_pronunciation the button is set to "Pronunciation", disabled.
SaveWords ==
    /\ pc \in SavePositions
    /\ \E o \in WriteOutcomes(words) :
          /\ WriteResult(o) = "failed" => write_failures < MaxWriteFailures
          /\ file' = SaveWordsToCsv(words, file, o)
          /\ last_write' = WriteResult(o)
          /\ write_failures' = write_failures + (IF WriteResult(o) = "failed" THEN 1 ELSE 0)
    /\ pc' = AfterSave(pc)
    /\ pron_button' = IF pc = "pron_save" THEN "disabled" ELSE pron_button
    /\ UNCHANGED <<mylist, words, known_words, current_word, mode,
                   show_answer_button, learned_button, next_button, answer_shown,
                   load_failed, import_log>>
    /\ UNCHANGED call

\* lines 36-41 of __init__: current_word, mode, known_words and _setup_ui
SetupUi ==
    /\ pc = "setup"
    /\ current_word' = 0
    /\ mode' = "en_to_tr"
    /\ known_words' = KnownFromWords(words)
    /\ show_answer_button' = "normal"
    /\ learned_button' = "disabled"
    /\ next_button' = "disabled"
    /\ pron_button' = "normal"
    /\ answer_shown' = FALSE
    /\ pc' = "load_new_word"
    /\ UNCHANGED <<file, mylist, words, load_failed, import_log, last_write, write_failures>>
    /\ UNCHANGED call

\* SelectWord leaving the I Learned It button as it is
SelectWord_KeepsLearnedButton(i, m) ==
    /\ current_word' = i
    /\ answer_shown' = FALSE
    /\ next_button' = "disabled"
    /\ learned_button' = learned_button
    /\ show_answer_button' = "normal"
    /\ pron_button' = IF SourcePron(words[i], m) # <<>> THEN "disabled" ELSE "normal"
    /\ pc' = "idle"

\* _load_new_word from random.choice on: the dict at index i is chosen
SelectWord(i, m) ==
    /\ current_word' = i
    /\ answer_shown' = FALSE
    /\ next_button' = "disabled"
    /\ learned_button' = "disabled"
    /\ show_answer_button' = "normal"
    /\ pron_button' = IF SourcePron(words[i], m) # <<>> THEN "disabled" ELSE "normal"
    /\ pc' = "idle"

\* _load_new_word in mode m, up to its call of _save_words_to_csv when the
\* unknown pool is empty, to its end otherwise
LoadNewWordIn(m) ==
    IF GetUnknownWords(words) = {}
    THEN /\ words' = ResetLearned(words)
         /\ known_words' = {}
         /\ pc' = "reset_save"
         /\ UNCHANGED <<current_word, ui>>
    ELSE /\ \E i \in GetUnknownWords(words) : SelectWord(i, m)
         /\ UNCHANGED <<words, known_words>>

\* the call of _load_new_word that ends __init__ and _mark_learned_and_next
LoadNewWord ==
    /\ pc = "load_new_word"
    /\ LoadNewWordIn(mode)
    /\ UNCHANGED <<file, mylist, mode, load_failed, import_log, last_write, write_failures>>
    /\ UNCHANGED call

\* _load_new_word after the reset was saved: unknown = self.words, and
\* random.choice raises IndexError on an empty list, which nothing catches
ChooseAfterReset ==
    /\ pc = "choose"
    /\ IF words = <<>>
       THEN /\ pc' = "crashed"
            /\ UNCHANGED <<current_word, ui>>
       ELSE \E i \in 1..Len(words) : SelectWord(i, mode)
    /\ UNCHANGED <<file, mylist, words, known_words, mode, load_failed, import_log,
                   last_write, write_failures>>
    /\ UNCHANGED call

\* the Show Answer button
ShowAnswer ==
    /\ pc = "idle"
    /\ show_answer_button = "normal"
    /\ answer_shown' = TRUE
    /\ show_answer_button' = "disabled"
    /\ next_button' = "normal"
    /\ learned_button' = "normal"
    /\ UNCHANGED <<file, mylist, words, known_words, current_word, mode, pron_button,
                   pc, load_failed, import_log, last_write, write_failures>>
    /\ UNCHANGED call

\* the Next Word button
NextWord ==
    /\ pc = "idle"
    /\ next_button = "normal"
    /\ LoadNewWordIn(mode)
    /\ UNCHANGED <<file, mylist, mode, load_failed, import_log, last_write, write_failures>>
    /\ UNCHANGED call

\* a selection in the mode combobox: _toggle_mode
ToggleMode ==
    /\ pc = "idle"
    /\ \E m \in Modes :
          /\ mode' = m
          /\ LoadNewWordIn(m)
    /\ UNCHANGED <<file, mylist, load_failed, import_log, last_write, write_failures>>
    /\ UNCHANGED call

\* the I Learned It button: _mark_learned_and_next up to its save
MarkLearnedAndNext ==
    /\ pc = "idle"
    /\ learned_button = "normal"
    /\ current_word # 0
    /\ words' = MarkLearned(words, words[current_word].en)
    /\ known_words' = AddKnown(known_words, words[current_word].en)
    /\ pc' = "mark_save"
    /\ UNCHANGED <<file, mylist, current_word, mode, ui, load_failed, import_log,
                   last_write, write_failures>>
    /\ UNCHANGED call

\* what the fetch of _get_pronunciation can return for the current word
FetchedProns(w, m) ==
    IF m = "en_to_tr" THEN { FetchEnglishPron(o) : o \in IpaOutcomes }
    ELSE { FetchTurkishPron(w.tr) }

\* WithSourcePron setting the pronunciation of the answer side
WithSourcePron_AnswerSide(ws, i, m, pron) ==
    IF m = "en_to_tr" THEN [ws EXCEPT ![i].tr_pron = pron]
    ELSE [ws EXCEPT ![i].en_pron = pron]

\* the list with the source pronunciation of the dict at index i set
WithSourcePron(ws, i, m, pron) ==
    IF m = "en_to_tr" THEN [ws EXCEPT ![i].en_pron = pron]
    ELSE [ws EXCEPT ![i].tr_pron = pron]

\* the Get Pronunciation button: _get_pronunciation up to its save, or, when
\* nothing was fetched, up to the "Failed" warning it shows
\* (the two early returns change nothing and are not reached while the
\* button is enabled: it is enabled by _load_new_word for a current word
\* whose source pronunciation is empty)
GetPronunciation ==
    /\ pc = "idle"
    /\ pron_button = "normal"
    /\ current_word # 0
    /\ SourcePron(words[current_word], mode) = <<>>
    /\ \E pron \in FetchedProns(words[current_word], mode) :
          IF pron # <<>>
          THEN /\ words' = WithSourcePron(words, current_word, mode, pron)
               /\ pc' = "pron_save"
          ELSE /\ words' = words
               /\ pc' = "pron_warning"
    /\ UNCHANGED <<file, mylist, known_words, current_word, mode, ui, load_failed, import_log,
                   last_write, write_failures>>
    /\ UNCHANGED call

\* the "Failed" warning of _get_pronunciation is closed: the handler returns
CloseWarning ==
    /\ pc = "pron_warning"
    /\ pc' = "idle"
    /\ UNCHANGED <<file, mylist, words, known_words, current_word, mode, ui, load_failed,
                   import_log, last_write, write_failures>>
    /\ UNCHANGED call

Next ==
    \/ LoadWords
    \/ ImportFromMylist
    \/ SaveWords
    \/ SetupUi
    \/ LoadNewWord
    \/ ChooseAfterReset
    \/ ShowAnswer
    \/ NextWord
    \/ ToggleMode
    \/ MarkLearnedAndNext
    \/ GetPronunciation
    \/ CloseWarning

Spec == Init /\ [][Next]_vars

(***************************************************************************)
(* The pronunciation functions called directly.  Neither reads the object  *)
(* or the files: one call takes a string and returns a string, and the     *)
(* game stays as it was constructed.                                       *)
(***************************************************************************)
\* the longest string passed to a pronunciation function
MaxPronLen == 4

\* Characters of the strings passed: two letters the table leaves alone,
\* esh (alone "sh", after t "ch"), the two stress marks, a blank, a slash
\* and a hyphen.
PronAlphabet == {"k", "t", "U+0283", "U+02C8", "U+02CC", " ", "/", "-"}

PronInputs == SeqsUpTo(PronAlphabet, MaxPronLen)

PronInit ==
    /\ file = AbsentFile
    /\ mylist = AbsentList
    /\ words = <<>>
    /\ known_words = {}
    /\ current_word = 0
    /\ mode = "en_to_tr"
    /\ show_answer_button = "normal"
    /\ learned_button = "disabled"
    /\ next_button = "disabled"
    /\ pron_button = "normal"
    /\ answer_shown = FALSE
    /\ pc = "load_words"
    /\ load_failed = FALSE
    /\ import_log = NoImportLog
    /\ last_write = "none"
    /\ write_failures = 0
    /\ pron_call = "none"
    /\ pron_arg \in PronInputs
    /\ pron_ret = <<>>

\* pron, error = self._fetch_turkish_pron(word)
CallFetchTurkishPron ==
    /\ pron_call' = "_fetch_turkish_pron"
    /\ pron_ret' = FetchTurkishPron(pron_arg)
    /\ UNCHANGED <<pron_arg, game>>

\* pron = self._simplify_english_pron(ipa)
CallSimplifyEnglishPron ==
    /\ pron_call' = "_simplify_english_pron"
    /\ pron_ret' = SimplifyEnglishPron(pron_arg)
    /\ UNCHANGED <<pron_arg, game>>

PronNext ==
    \/ CallFetchTurkishPron
    \/ CallSimplifyEnglishPron

PronSpec == PronInit /\ [][PronNext]_vars

(***************************************************************************)
(* Properties.                                                             *)
(***************************************************************************)
\* the english keys of a word list
Keys(ws) == { ws[i].en : i \in 1..Len(ws) }

\* no two dicts of the list have the same english key
UniqueKeys(ws) == \A i, j \in 1..Len(ws) : ws[i].en = ws[j].en => i = j

\* the word list _load_words would read from the file as it is now
FileWords == IF file.exists THEN LoadRows(file.rows) ELSE <<>>

\* C1: between events, once startup is over, no dict _get_unknown_words
\* returns has its english key in known_words, whatever word table was loaded.
C1_UnknownNotKnown ==
    pc = "idle" => \A i \in GetUnknownWords(words) : words[i].en \notin known_words

\* C2: when _load_new_word has finished, the dict in current_word has
\* learned = 0 and its english key is not in known_words.
C2_SelectedIsUnknown ==
    pc = "idle" => /\ current_word \in 1..Len(words)
                   /\ words[current_word].learned = 0
                   /\ words[current_word].en \notin known_words

\* C3: when _load_new_word finds the unknown pool empty, every learned flag
\* is 0 and known_words is empty when the table is written, and the
\* selection that follows succeeds: it never raises on any list loaded.
C3_ResetThenSelect ==
    /\ pc \in {"reset_save", "choose"} =>
          /\ \A i \in 1..Len(words) : words[i].learned = 0
          /\ known_words = {}
    /\ pc # "crashed"

\* C6: when the word table file was absent at _load_words, startup stops
\* there: nothing is imported, no word is selected and the file is not created.
C6_MissingFileAbortsStartup ==
    load_failed => /\ words = <<>>
                   /\ current_word = 0
                   /\ ~file.exists
                   /\ pc \in {"import", "setup"}

\* C10: in every state known_words is a subset of the english keys of the
\* word list.
C10_KnownSubsetOfKeys == known_words \subseteq Keys(words)

\* C10's case: a word was marked by the I Learned It button and its key is
\* in known_words.
C10_Witness ==
    /\ pc = "mark_save"
    /\ words[current_word].en \in known_words

\* lines 394-400 of _mark_learned_and_next applied to a store: the flag, the
\* set and the file after the save ended with outcome o
MarkStep(ws, kw, f, en_word, o) ==
    [words |-> MarkLearned(ws, en_word),
     known_words |-> AddKnown(kw, en_word),
     file |-> SaveWordsToCsv(MarkLearned(ws, en_word), f, o)]

\* the outcome of a write of ws that does not fail
OkWrite(ws) == [result |-> "ok", k |-> Len(ws)]

IsPrefix(s, t) == Len(s) <= Len(t) /\ SubSeq(t, 1, Len(s)) = s

\* C5: while no write has failed, the file holds the word list whenever no
\* handler is between a change and its save (after a write, field by field
\* what is in memory), and between a change and its save it is behind by
\* that one change: the entries just imported, the flag just set, the flags
\* just reset, or the pronunciation just fetched.
C5_FileFollowsMemory ==
    write_failures = 0 =>
        CASE pc = "load_words" -> TRUE
          [] pc = "import_save" -> IsPrefix(FileWords, words) /\ FileWords # words
          [] pc = "mark_save" ->
                /\ Len(FileWords) = Len(words)
                /\ Cardinality({ i \in 1..Len(words) : FileWords[i] # words[i] }) <= 1
                /\ \A i \in 1..Len(words) :
                      [FileWords[i] EXCEPT !.learned = 1] = words[i] \/ FileWords[i] = words[i]
          [] pc = "reset_save" -> ResetLearned(FileWords) = words
          [] pc = "pron_save" ->
                /\ FileWords # words
                /\ WithSourcePron(FileWords, current_word, mode,
                                  SourcePron(words[current_word], mode)) = words
          [] OTHER -> /\ FileWords = words
                      /\ last_write = "ok" => file.exists /\ file.rows = SaveRows(words)

\* C5's case: a mark and a fetched pronunciation were both written and the
\* handler is back in the main loop.
C5_Witness ==
    /\ write_failures = 0
    /\ pc = "idle"
    /\ last_write = "ok"
    /\ \E i \in 1..Len(words) : words[i].learned = 1
    /\ \E i \in 1..Len(words) : words[i].tr_pron # <<>>

\* C7 as stated, on a store with distinct keys and at least one word: from
\* a failed write to the next write that succeeds, the file differs from
\* the word list in memory.
C7_FileDiffersUntilWritten ==
    (last_write = "failed" /\ UniqueKeys(words) /\ words # <<>>) => FileWords # words

\* C7, amended: a call of _save_words_to_csv, failed or not, leaves the
\* word list, known_words and the current word as the handler made them and
\* the handler goes on (after a mark, to _load_new_word); a failed write
\* leaves the file as it was or cut short, without the change; a write
\* that succeeds makes the file equal to the whole word list in memory.
C7_SaveStep ==
    pc \in SavePositions =>
          /\ words' = words
          /\ known_words' = known_words
          /\ current_word' = current_word
          /\ pc' \in {"setup", "load_new_word", "choose", "idle"}
          /\ pc = "mark_save" => pc' = "load_new_word"
          /\ last_write' = "failed" =>
                \/ file' = file
                \/ /\ file'.exists
                   /\ Len(file'.rows) < Len(words)
                   /\ IsPrefix(LoadRows(file'.rows), words)
          /\ last_write' = "ok" =>
                /\ file'.exists
                /\ file'.rows = SaveRows(words')
                /\ LoadRows(file'.rows) = words'

\* C7, amended, as a property of every step: a call of _save_words_to_csv
\* keeps the memory, lets the handler go on, and writes the whole word list
\* when it succeeds.
C7_FailedWriteKeepsMemory == [][C7_SaveStep]_vars

\* C7's case: the write of a mark failed, the next word was loaded with the
\* mark kept in memory, and a later write succeeded.
C7_Witness ==
    /\ pc = "idle"
    /\ write_failures > 0
    /\ last_write = "ok"
    /\ known_words # {}
    /\ FileWords = words

\* no two dicts of the list have the same lowercase english key
NoLowerDuplicates(ws) ==
    \A i, j \in 1..Len(ws) : Lower(ws[i].en) = Lower(ws[j].en) => i = j

\* no two rows of the file have the same lowercase english field
NoLowerDuplicateRows(rows) ==
    \A i, j \in 1..Len(rows) : Lower(rows[i].english) = Lower(rows[j].english) => i = j

\* every translation outcome for every line of mylist.txt
AllTranslations == [1..Len(mylist.lines) -> TransOutcomes]

\* C8 as stated, its last part: once an import has read mylist.txt, a
\* second run of the import over the same list appends nothing.
C8_RerunAddsNothing ==
    (pc \in {"import_save", "setup"} /\ mylist.exists /\ ~import_log.read_error) =>
        \A tr \in AllTranslations : ImportNewWords(words, mylist.lines, tr) = <<>>

\* C8, amended: the import appends no candidate whose lowercase form is the
\* lowercase key of an entry before it in the store, so a store without two
\* such entries stays one and so does the file written from it; a second
\* run over the same list appends nothing but candidates of lines whose
\* translation failed in the first, and nothing if none failed.
C8_ImportStep ==
    /\ pc = "import" =>
            /\ \A j \in (Len(words) + 1)..Len(words') : \A i \in 1..(j - 1) :
                  Lower(words'[i].en) # Lower(words'[j].en)
            /\ NoLowerDuplicates(words) => NoLowerDuplicates(words')
    /\ (pc = "import_save" /\ NoLowerDuplicates(FileWords)) =>
            NoLowerDuplicateRows(file'.rows)

\* C8, amended, as a property of every step and state: no duplicate by
\* lowercase key is appended or written, and a second run appends only
\* candidates of lines whose translation failed in the first.
C8_ImportSkipsDuplicates ==
    /\ [][C8_ImportStep]_vars
    /\ []((pc \in {"import_save", "setup"} /\ mylist.exists /\ ~import_log.read_error) =>
            \A tr \in AllTranslations :
                LET again == ImportNewWords(words, mylist.lines, tr)
                IN  \A k \in 1..Len(again) :
                        \E i \in import_log.failed : Strip(mylist.lines[i]) = again[k].en)

\* C8's case: the import has run over a list with a candidate that
\* differs by case from a key of the store, and appended nothing.
C8_Witness ==
    /\ pc = "setup"
    /\ mylist.exists
    /\ import_log = NoImportLog
    /\ words # <<>>
    /\ words = FileWords
    /\ \E i \in 1..Len(mylist.lines) : \E k \in 1..Len(words) :
          /\ Strip(mylist.lines[i]) # words[k].en
          /\ Lower(Strip(mylist.lines[i])) = Lower(words[k].en)

\* the candidate of line i
Candidate(i) == Strip(mylist.lines[i])

\* The lines whose candidate the import must append, given the lines whose
\* translation failed: not blank, translated, not the lowercase form of a
\* key of the store ws, nor of an earlier line that did not fail.
KeptLines(ws, failed) ==
    { i \in 1..Len(mylist.lines) :
        /\ Candidate(i) # <<>>
        /\ i \notin failed
        /\ \A k \in 1..Len(ws) : Lower(ws[k].en) # Lower(Candidate(i))
        /\ \A j \in 1..(i - 1) : Lower(Candidate(j)) = Lower(Candidate(i)) => j \in failed }

\* the numbers of a set of lines, in list order
InOrder(S) == SelectSeq([i \in 1..Len(mylist.lines) |-> i], LAMBDA i : i \in S)

\* C9: when mylist.txt is read, whatever lines fail to translate, the
\* import appends exactly the candidates of the lines that are not blank,
\* not duplicates and translated, in list order, each with learned = 0, no
\* pronunciation and the stripped translation, and goes on to save them;
\* the candidate of a failing line is not appended.
C9_ImportStep ==
    (pc = "import" /\ mylist.exists /\ ~import_log'.read_error) =>
          LET kept == InOrder(KeptLines(words, import_log'.failed))
          IN  /\ Len(words') = Len(words) + Len(kept)
              /\ SubSeq(words', 1, Len(words)) = words
              /\ \A k \in 1..Len(kept) :
                    LET w == words'[Len(words) + k]
                    IN  /\ w.en = Candidate(kept[k])
                        /\ w.learned = 0
                        /\ w.en_pron = <<>>
                        /\ w.tr_pron = <<>>
                        /\ \E o \in TransOutcomes : o.ok /\ w.tr = Strip(o.text)
              /\ kept # <<>> => pc' = "import_save"

\* C9, as a property of every step: the import appends exactly the
\* candidates that are not blank, not duplicates and translated, whatever
\* translations fail.
C9_FailureDoesNotAbortBatch == [][C9_ImportStep]_vars

\* C9's case: the translation of the first line failed and the candidate
\* of the second line was appended.
C9_Witness ==
    /\ pc = "import_save"
    /\ import_log.failed = {1}
    /\ Len(mylist.lines) = 2
    /\ Len(words) = Len(FileWords) + 1
    /\ words[Len(words)].en = Strip(mylist.lines[2])

PronOutputChars == (PronAlphabet \ {"U+02C8", "U+02CC"}) \cup {"s", "h", "c"}

\* C12: whatever was called before, a call of _simplify_english_pron
\* returns a string, the one the function gives for that input, and the
\* string holds neither the primary nor the secondary stress mark.
C12_SimplifyTotalNoStress ==
    pron_call = "_simplify_english_pron" =>
        /\ pron_ret \in Seq(PronOutputChars)
        /\ pron_ret = SimplifyEnglishPron(pron_arg)
        /\ \A i \in 1..Len(pron_ret) : pron_ret[i] \notin {"U+02C8", "U+02CC"}

\* C12's case: the function was called on a string with both stress marks
\* and returned a string that is not empty.
C12_Witness ==
    /\ pron_call = "_simplify_english_pron"
    /\ \E i, j \in 1..Len(pron_arg) : pron_arg[i] = "U+02C8" /\ pron_arg[j] = "U+02CC"
    /\ pron_ret # <<>>

\* the number of hyphens of a string
HyphenCount(s) == Cardinality({ i \in 1..Len(s) : s[i] = "-" })

\* the number of maximal runs of whitespace of a string
SpaceRuns(s) ==
    Cardinality({ i \in 1..Len(s) : IsSpace(s[i]) /\ (i = 1 \/ ~IsSpace(s[i - 1])) })

\* the string without the character at position p
Without(s, p) == SubSeq(s, 1, p - 1) \o SubSeq(s, p + 1, Len(s))

\* C13: the string _simplify_english_pron returns holds no whitespace; each
\* run of whitespace left once the stress marks are gone has become one
\* hyphen; when the romanized string has no hyphen and more than 3
\* characters the result is that string with exactly one hyphen, put at
\* index floor(length / 2), and otherwise the romanized string itself; so a
\* result of more than 3 characters holds a hyphen.
C13_HyphensForWhitespace ==
    (pron_call = "_simplify_english_pron" /\ pron_arg # <<>>) =>
        LET r == Romanized(pron_arg)
            bare == SelectSeq(RStripSlash(LStripSlash(pron_arg)),
                              LAMBDA c : c \notin {"U+02C8", "U+02CC"})
        IN  /\ \A i \in 1..Len(pron_ret) : ~IsSpace(pron_ret[i])
            /\ HyphenCount(r) = HyphenCount(bare) + SpaceRuns(bare)
            /\ IF HyphenCount(r) = 0 /\ Len(r) > 3
               THEN /\ HyphenCount(pron_ret) = 1
                    /\ pron_ret[Len(r) \div 2 + 1] = "-"
                    /\ Without(pron_ret, Len(r) \div 2 + 1) = r
               ELSE pron_ret = r
            /\ Len(pron_ret) > 3 => HyphenCount(pron_ret) > 0

\* C13's case: the function was called on a string of 4 characters without
\* blank or hyphen and returned 5 characters, the third a hyphen.
C13_Witness ==
    /\ pron_call = "_simplify_english_pron"
    /\ Len(pron_arg) = 4
    /\ HyphenCount(pron_arg) = 0
    /\ SpaceRuns(pron_arg) = 0
    /\ Len(pron_ret) = 5
    /\ pron_ret[3] = "-"

(***************************************************************************)
(* Properties of the review session, under Spec.                           *)
(***************************************************************************)
\* a step of a handler that ends with a word selected by _load_new_word
SelectionStep ==
    /\ pc' = "idle"
    /\ LoadNewWord \/ ChooseAfterReset \/ NextWord \/ ToggleMode

\* the word is shown and its answer is hidden
WordShown ==
    /\ ~answer_shown
    /\ show_answer_button = "normal"
    /\ learned_button = "disabled"
    /\ next_button = "disabled"

\* the answer of the current word is revealed
AnswerRevealed ==
    /\ answer_shown
    /\ show_answer_button = "disabled"
    /\ learned_button = "normal"
    /\ next_button = "normal"

\* C14, its steps: the answer is revealed, and the two buttons enabled,
\* only by Show Answer on the word shown; a step that does not end in
\* AnswerRevealed is no Show Answer step, and one that does not end in
\* WordShown is neither a selection of a word nor a mode toggle; the
\* current word changes only by a selection; and a mark is made only by
\* I Learned It with the answer of the current word revealed, on the key
\* of that word.
C14_UiStep ==
    /\ (answer_shown' /\ ~answer_shown) =>
            /\ ShowAnswer
            /\ WordShown
            /\ current_word' = current_word
    /\ (learned_button' = "normal" /\ learned_button # "normal") => ShowAnswer
    /\ (next_button' = "normal" /\ next_button # "normal") => ShowAnswer
    /\ ~AnswerRevealed' => ~ShowAnswer
    /\ ~WordShown' => ~SelectionStep
    /\ (pc' # "idle" \/ ~WordShown') => ~ToggleMode
    /\ (current_word' # current_word) => SelectionStep
    /\ pc' = "mark_save" =>
            /\ MarkLearnedAndNext
            /\ AnswerRevealed
            /\ words[current_word].en \in known_words'
            /\ \E i \in 1..Len(words) : /\ words[i].en = words[current_word].en
                                        /\ words'[i].learned = 1

\* C14: in every state the I Learned It and Next Word buttons are enabled
\* only with the answer of the current word revealed, and Show Answer is
\* enabled exactly when the answer is hidden; the answer is revealed only
\* by Show Answer since the word was selected, so a mark follows a reveal
\* of the same word, and a mode toggle returns to WordShown.
C14_RevealBeforeMark ==
    /\ []((learned_button = "normal" \/ next_button = "normal") =>
            (answer_shown /\ current_word \in 1..Len(words)))
    /\ [](show_answer_button = "normal" <=> ~answer_shown)
    /\ [][C14_UiStep]_vars

\* C14's case: in turkish-to-english mode, after a word was marked, the
\* answer of the next word is revealed and both buttons are enabled.
C14_Witness ==
    /\ pc = "idle"
    /\ mode = "tr_to_en"
    /\ AnswerRevealed
    /\ known_words # {}
    /\ \E i \in 1..Len(words) : words[i].learned = 1 /\ i # current_word

\* C15, its step: I Learned It sets the flag of the dict that is the
\* current word and takes exactly that dict out of the unknown pool.
C15_MarkStep ==
    MarkLearnedAndNext =>
        /\ words'[current_word].learned = 1
        /\ GetUnknownWords(words') = GetUnknownWords(words) \ {current_word}
        /\ Cardinality(GetUnknownWords(words')) = Cardinality(GetUnknownWords(words)) - 1

\* C15: every I Learned It event marks the entry that is the current word,
\* so the unknown pool shrinks by one at each mark, whatever word table
\* was loaded.
C15_MarkShrinksPool == [][C15_MarkStep]_vars

\* the pronunciation fields of the dicts a step leaves and that were not
\* empty are as they were
PronsKept ==
    words' # words =>
        \A i \in 1..Len(words) :
            /\ words[i].en_pron # <<>> => words'[i].en_pron = words[i].en_pron
            /\ words[i].tr_pron # <<>> => words'[i].tr_pron = words[i].tr_pron

\* C16, its steps: no step changes a pronunciation that is not empty; the
\* save and the warning of _get_pronunciation are reached only by a click
\* on Get Pronunciation, which either fills the empty source pronunciation of
\* the current word, and nothing else of the word list, and goes on to
\* save, or, when nothing was fetched, shows its warning with the word
\* list, known_words, the current word, the file and the buttons as they
\* were; closing the warning gives the session back as it was.
C16_PronStep ==
    /\ Len(words') >= Len(words)
    /\ PronsKept
    /\ pc' \in {"pron_save", "pron_warning"} =>
            /\ GetPronunciation
            /\ SourcePron(words[current_word], mode) = <<>>
            /\ known_words' = known_words
            /\ current_word' = current_word
            /\ file' = file
            /\ IF pc' = "pron_save"
               THEN /\ SourcePron(words'[current_word], mode) # <<>>
                    /\ Len(words') = Len(words)
                    /\ \A i \in 1..Len(words) : i # current_word => words'[i] = words[i]
                    /\ \E pron \in FetchedProns(words[current_word], mode) :
                          words'[current_word] =
                             IF mode = "en_to_tr"
                             THEN [words[current_word] EXCEPT !.en_pron = pron]
                             ELSE [words[current_word] EXCEPT !.tr_pron = pron]
               ELSE /\ pc' = "pron_warning"
                    /\ words' = words
                    /\ ui' = ui
    /\ pc = "pron_warning" =>
            /\ pc' = "idle"
            /\ UNCHANGED <<words, known_words, current_word, file, mode, ui>>

\* C16: _get_pronunciation fills only an empty source pronunciation of the
\* current word and overwrites none; a fetch that fails or yields the empty
\* string changes nothing and the session goes on; and between events, as
\* while the warning shows, the pronunciation button is enabled exactly
\* when the source pronunciation of the current word is empty.
C16_FillsOnlyEmptyPron ==
    /\ [][C16_PronStep]_vars
    /\ [](pc \in {"idle", "pron_warning"} =>
            /\ current_word \in 1..Len(words)
            /\ pron_button = "normal" <=> SourcePron(words[current_word], mode) = <<>>)

\* C16's case: a turkish pronunciation was fetched and saved for a word,
\* and in english-to-turkish mode the fetch for the same word failed: the
\* warning shows and the turkish pronunciation is still there.
C16_Witness ==
    /\ pc = "pron_warning"
    /\ mode = "en_to_tr"
    /\ words[current_word].tr_pron # <<>>
    /\ words[current_word].en_pron = <<>>
    /\ FileWords = words

\* C17, its steps: a step that changes the word list (so a learned flag),
\* known_words or the file, or that does not end in the main loop, is no
\* step of Show Answer, Next Word or a mode toggle: these three leave the
\* flags, known_words and the file as they are, without a reset; the reset and its write are
\* entered only from the call of _load_new_word that ends __init__ or
\* _mark_learned_and_next.
C17_FrameStep ==
    /\ (words' # words \/ known_words' # known_words \/ file' # file \/ pc' # "idle") =>
            ~(ShowAnswer \/ NextWord \/ ToggleMode)
    /\ pc' = "reset_save" => LoadNewWord
    /\ (pc' = "load_new_word" /\ pc # "load_new_word") => pc \in {"setup", "mark_save"}

\* C17: Show Answer, Next Word and mode toggle never change a learned flag,
\* known_words or the file; once a word is selected the unknown pool is
\* not empty between events, so a reset is triggered only at startup or
\* by I Learned It.
C17_ViewingKeepsProgress ==
    /\ [][C17_FrameStep]_vars
    /\ [](pc \in {"idle", "pron_warning"} => GetUnknownWords(words) # {})

\* C17's case: with one word learned and one unknown word left, the mode
\* was toggled and the word is shown again, flags and known_words kept.
C17_Witness ==
    /\ pc = "idle"
    /\ mode = "tr_to_en"
    /\ WordShown
    /\ Cardinality(GetUnknownWords(words)) = 1
    /\ Len(words) = 2
    /\ known_words # {}
    /\ FileWords = words

\* the positions at which self.known_words exists: from line 38 of __init__
KnownWordsSet == pc \notin {"load_words", "import", "import_save", "setup"}

\* Known and Remaining as _update_progress_display counts them
KnownCount == Cardinality(known_words)
RemainingCount == Cardinality(GetUnknownWords(words))

\* C18: once known_words is built, it is in every state the set of english
\* keys of the entries with learned = 1, and Known + Remaining is the
\* number of entries of the word list, whatever word table was loaded.
C18_ProgressAgrees ==
    KnownWordsSet =>
        /\ known_words = KnownFromWords(words)
        /\ KnownCount + RemainingCount = Len(words)
====
